---- MODULE Spec2Model ----
(***************************************************************************)
(* The URL frontier of mwmbl (src/mwmbl/crawler/urls.py): the urls table,  *)
(* the merge of found URLs (update_found_urls), the leasing of crawl work  *)
(* (get_new_batch_for_user) and the reading of scores (get_url_scores),    *)
(* run by concurrent PostgreSQL transactions at READ COMMITTED; and the    *)
(* loop of the background process (src/mwmbl/background.py).               *)
(*                                                                         *)
(* The table is modelled as its committed rows (urls), the row versions    *)
(* written by transactions that have not committed yet (pending) and the   *)
(* row locks (lock).  A statement sees the committed rows and the writes   *)
(* of its own transaction.  Time is counted in whole hours.                *)
(***************************************************************************)
EXTENDS Integers, Sequences, FiniteSets, TLC

\* ------------------------------------------------------------- constants
\* class URLStatus (NEW is a reserved word of TLA+)
URLStatus_NEW == 0
ASSIGNED == 10
ERROR_TIMEOUT == 20
ERROR_404 == 30
ERROR_OTHER == 40
ERROR_ROBOTS_DENIED == 50
CRAWLED == 100
URLStatus ==
  {URLStatus_NEW, ASSIGNED, ERROR_TIMEOUT, ERROR_404, ERROR_OTHER, ERROR_ROBOTS_DENIED, CRAWLED}

REASSIGN_MIN_HOURS == 1
BATCH_SIZE == 100
\* batch(urls, 10000) in get_url_scores
URL_BATCH_SIZE == 10000

\* ---------------------------------------------------------------- bounds
Procs == {1, 2}          \* concurrent database connections
URLS == {1, 2}           \* the URL strings, in their sort order
Users == {"A", "B"}      \* user_id_hash values
MaxTime == 2             \* the clock and the report timestamps: 0..MaxTime
MaxScore == 3            \* the largest accumulated score of a row
MaxBatch == 1            \* the table is too small for a batch of BATCH_SIZE rows:
                         \* the lease query stops at MaxBatch rows if that is less

MaxChunk == 1            \* the lists are too short for a chunk of 10000 urls:
                         \* a chunk of get_url_scores ends at MaxChunk urls if that is less
MaxIter == 4             \* the iterations of the loop of run that are followed

Times == 0..MaxTime
Conn == CHOOSE p \in Procs : \A q \in Procs : p <= q      \* the first connection
FirstUrl == CHOOSE u \in URLS : \A v \in URLS : u <= v    \* the first url

Max(a, b) == IF a >= b THEN a ELSE b
Min(a, b) == IF a <= b THEN a ELSE b

\* dataclass FoundURL
FoundURL(url, user_id_hash, score, status, timestamp) ==
  [url |-> url, user_id_hash |-> user_id_hash, score |-> score,
   status |-> status, timestamp |-> timestamp]

\* url_scores = {}
NoScores == [u \in {} |-> 0]

\* The value of a row that is not in the table.
NoRow == [status |-> -1, user_id_hash |-> "", score |-> 0, updated |-> 0]

VARIABLES
  clock,       \* datetime.utcnow(), in hours
  urls,        \* the committed rows of table urls: url -> row or NoRow
  pending,     \* the uncommitted version of a row, written by its lock holder
  lock,        \* the transaction holding the row lock of a url, 0 if none
  pc,          \* where each connection is in its call
  found_urls,  \* the argument of update_found_urls
  new_urls,    \* update_found_urls: input urls not found by get_urls_sql
  data,        \* update_found_urls: the rows handed to execute_values
  next_row,    \* the row of data the INSERT statement works on next
  user,        \* the argument of get_new_batch_for_user
  now,         \* get_new_batch_for_user: now
  results,     \* get_new_batch_for_user: the urls locked and returned
  maxMerged,   \* history: the highest status merged into a url, while only
               \* merges have written it (-1: no row yet, Leased: a lease has)
  sumMerged,   \* history: the sum of the scores merged into a url
  leasedAt,    \* history: now of the last lease, -1 once a merge touched the url
  lastLease,   \* history: now of the last lease of the url, -1 if none
  backdated,   \* history: a report with status ASSIGNED and a timestamp before
               \* lastLease has been merged into the url since that lease
  skipped,     \* history: the existing rows lock_urls_sql of the call found locked
  calls,       \* a sequential caller: the lists it merges, one call after the other
  called,      \* a sequential caller: the number of calls it has made
  score_pc,    \* where the connection that runs get_url_scores is in its call
  score_urls,  \* the argument urls of get_url_scores
  ndx,         \* batch: the index of the next chunk (counted from 1)
  url_scores,  \* get_url_scores: the mapping collected so far
  stores,      \* history: the score mappings the table went through during the call
  run_pc,      \* where run of background.py is
  iteration,   \* history: the iterations of the loop of run that have started
  log          \* the messages of logger.exception

vars == <<clock, urls, pending, lock, pc, found_urls, new_urls, data, next_row,
          user, now, results, maxMerged, sumMerged, leasedAt, lastLease, backdated,
          skipped, calls, called,
          score_pc, score_urls, ndx, url_scores, stores, run_pc, iteration, log>>

tableVars == <<urls, pending, lock>>
mergeVars == <<found_urls, new_urls, data, next_row, skipped>>
leaseVars == <<user, now, results>>
histVars == <<maxMerged, sumMerged, leasedAt, lastLease, backdated>>
callerVars == <<calls, called>>
scoreVars == <<score_pc, score_urls, ndx, url_scores>>
runVars == <<run_pc, iteration, log>>

\* ----------------------------------------------------------- the table
\* The row of url u a statement of transaction p reads.
Visible(p, u) ==
  IF lock[u] = p /\ pending[u] # NoRow THEN pending[u] ELSE urls[u]

\* COMMIT of transaction p: its row versions become the committed ones.
CommittedBy(p) ==
  [u \in URLS |-> IF lock[u] = p /\ pending[u] # NoRow THEN pending[u] ELSE urls[u]]

\* The end of transaction p, by COMMIT or ROLLBACK, drops its locks.
Released(p) == [u \in URLS |-> IF lock[u] = p THEN 0 ELSE lock[u]]
Discarded(p) == [u \in URLS |-> IF lock[u] = p THEN NoRow ELSE pending[u]]

\* --------------------------------------------------- update_found_urls
\* The VALUES row of a report: the row "excluded" of the upsert.
Excluded(r) ==
  [status |-> r.status, user_id_hash |-> r.user_id_hash,
   score |-> r.score, updated |-> r.timestamp]

\* Faulty variants of the upsert, used to test the properties below.
OnConflictLastStatus(existing, excluded) ==
  [status |-> excluded.status,
   user_id_hash |-> IF existing.status > excluded.status
                    THEN existing.user_id_hash ELSE excluded.user_id_hash,
   score |-> existing.score + excluded.score,
   updated |-> IF existing.status > excluded.status
               THEN existing.updated ELSE excluded.updated]
OnConflictScoreReplaced(existing, excluded) ==
  [status |-> Max(existing.status, excluded.status),
   user_id_hash |-> IF existing.status > excluded.status
                    THEN existing.user_id_hash ELSE excluded.user_id_hash,
   score |-> excluded.score,
   updated |-> IF existing.status > excluded.status
               THEN existing.updated ELSE excluded.updated]
OnConflictTieKeeps(existing, excluded) ==
  [status |-> Max(existing.status, excluded.status),
   user_id_hash |-> IF existing.status >= excluded.status
                    THEN existing.user_id_hash ELSE excluded.user_id_hash,
   score |-> existing.score + excluded.score,
   updated |-> IF existing.status >= excluded.status
               THEN existing.updated ELSE excluded.updated]
OnConflictReversed(existing, excluded) ==
  [status |-> Max(existing.status, excluded.status),
   user_id_hash |-> IF existing.status < excluded.status
                    THEN existing.user_id_hash ELSE excluded.user_id_hash,
   score |-> existing.score + excluded.score,
   updated |-> IF existing.status < excluded.status
               THEN existing.updated ELSE excluded.updated]
OnConflictLatestUpdated(existing, excluded) ==
  [status |-> Max(existing.status, excluded.status),
   user_id_hash |-> IF existing.status > excluded.status
                    THEN existing.user_id_hash ELSE excluded.user_id_hash,
   score |-> existing.score + excluded.score,
   updated |-> Max(existing.updated, excluded.updated)]
OnConflictUpdatedAlways(existing, excluded) ==
  [status |-> Max(existing.status, excluded.status),
   user_id_hash |-> IF existing.status > excluded.status
                    THEN existing.user_id_hash ELSE excluded.user_id_hash,
   score |-> existing.score + excluded.score,
   updated |-> excluded.updated]

\* ON CONFLICT (url) DO UPDATE SET ...
OnConflict(existing, excluded) ==
  [status |-> Max(existing.status, excluded.status),
   user_id_hash |-> IF existing.status > excluded.status
                    THEN existing.user_id_hash ELSE excluded.user_id_hash,
   score |-> existing.score + excluded.score,
   updated |-> IF existing.status > excluded.status
               THEN existing.updated ELSE excluded.updated]

\* Faulty variant: the conflicting row is replaced.
InsertRowReplaces(existing, r) == Excluded(r)

\* INSERT INTO urls ... ON CONFLICT ...: the row after one VALUES row.
InsertRow(existing, r) ==
  IF existing = NoRow THEN Excluded(r) ELSE OnConflict(existing, Excluded(r))

\* set(input_urls), with input_urls = [x.url for x in found_urls]
UrlSet(reports) == {reports[i].url : i \in 1..Len(reports)}

\* set(urls) of a list of urls
UrlsOf(list) == {list[i] : i \in 1..Len(list)}

\* Faulty variant: the assertion is not made.
NoDuplicatesUnchecked(reports) == TRUE

\* len(input_urls) == len(set(input_urls))
NoDuplicates(reports) == Len(reports) = Cardinality(UrlSet(reports))

\* sorted(found_urls, key=lambda x: x.url)
RECURSIVE InsertSorted(_, _)
InsertSorted(r, s) ==
  IF s = <<>> THEN <<r>>
  ELSE IF r.url < Head(s).url THEN <<r>> \o s
  ELSE <<Head(s)>> \o InsertSorted(r, Tail(s))

RECURSIVE SortedByUrl(_)
SortedByUrl(reports) ==
  IF reports = <<>> THEN <<>>
  ELSE InsertSorted(reports[Len(reports)], SortedByUrl(SubSeq(reports, 1, Len(reports) - 1)))

\* [found_url for found_url in sorted_urls if found_url.url in urls_to_insert]
RECURSIVE Keep(_, _)
Keep(s, urls_to_insert) ==
  IF s = <<>> THEN <<>>
  ELSE IF Head(s).url \in urls_to_insert
       THEN <<Head(s)>> \o Keep(Tail(s), urls_to_insert)
       ELSE Keep(Tail(s), urls_to_insert)

\* The locals of update_found_urls are gone when the call has ended.
Ended(p) ==
  /\ found_urls' = [found_urls EXCEPT ![p] = <<>>]
  /\ new_urls' = [new_urls EXCEPT ![p] = {}]
  /\ data' = [data EXCEPT ![p] = <<>>]
  /\ next_row' = [next_row EXCEPT ![p] = 1]
  /\ skipped' = [skipped EXCEPT ![p] = {}]

\* cursor.execute(get_urls_sql): the input urls that have no row yet.
NewUrls(p, reports) ==
  LET existing_urls == {u \in UrlSet(reports) : Visible(p, u) # NoRow}
  IN UrlSet(reports) \ existing_urls

\* update_found_urls(found_urls), up to the first query of its transaction:
\* the empty list returns, a duplicate url fails the assertion.
MergeCall(p, reports) ==
  /\ pc[p] = "idle"
  /\ IF Len(reports) = 0
     THEN UNCHANGED <<pc, found_urls, new_urls>>
     ELSE IF ~NoDuplicates(reports)
     THEN /\ pc' = [pc EXCEPT ![p] = "AssertionError"]
          /\ found_urls' = [found_urls EXCEPT ![p] = reports]
          /\ UNCHANGED new_urls
     ELSE /\ pc' = [pc EXCEPT ![p] = "lock_urls"]
          /\ found_urls' = [found_urls EXCEPT ![p] = reports]
          /\ new_urls' = [new_urls EXCEPT ![p] = NewUrls(p, reports)]
  /\ UNCHANGED <<clock, tableVars, data, next_row, skipped, leaseVars, histVars,
                 scoreVars, stores, runVars>>

\* SELECT url FROM urls WHERE url in ... FOR UPDATE SKIP LOCKED
LockedUrls(p) ==
  {u \in UrlSet(found_urls[p]) : Visible(p, u) # NoRow /\ lock[u] \in {0, p}}

\* The rows of the input urls that SKIP LOCKED leaves out.
SkippedUrls(p) ==
  {u \in UrlSet(found_urls[p]) : urls[u] # NoRow /\ lock[u] \notin {0, p}}

\* cursor.execute(lock_urls_sql), then data is built from the sorted reports.
\* found_urls is not read after that.
LockUrls(p) ==
  /\ pc[p] = "lock_urls"
  /\ LET locked_urls == LockedUrls(p)
         urls_to_insert == new_urls[p] \cup locked_urls
     IN /\ lock' = [u \in URLS |-> IF u \in locked_urls THEN p ELSE lock[u]]
        /\ data' = [data EXCEPT ![p] = Keep(SortedByUrl(found_urls[p]), urls_to_insert)]
  /\ skipped' = [skipped EXCEPT ![p] = SkippedUrls(p)]
  /\ found_urls' = [found_urls EXCEPT ![p] = <<>>]
  /\ next_row' = [next_row EXCEPT ![p] = 1]
  /\ pc' = [pc EXCEPT ![p] = "upsert"]
  /\ UNCHANGED <<clock, urls, pending, new_urls, leaseVars, histVars,
                 callerVars, scoreVars, stores, runVars>>

\* The INSERT statement waits for the transaction that holds the row it
\* conflicts with (an uncommitted insert of the same url, or a row lock).
HasRow(p) == pc[p] = "upsert" /\ next_row[p] <= Len(data[p])
RowToInsert(p) == data[p][next_row[p]].url
WaitsFor(p) ==
  IF HasRow(p) /\ lock[RowToInsert(p)] \notin {0, p}
  THEN lock[RowToInsert(p)] ELSE 0

\* execute_values(cursor, insert_sql, data), one VALUES row at a time.
Upsert(p) ==
  /\ HasRow(p)
  /\ WaitsFor(p) = 0
  /\ LET r == data[p][next_row[p]]
     IN /\ pending' = [pending EXCEPT ![r.url] = InsertRow(Visible(p, r.url), r)]
        /\ lock' = [lock EXCEPT ![r.url] = p]
  /\ next_row' = [next_row EXCEPT ![p] = @ + 1]
  /\ UNCHANGED <<clock, urls, pc, found_urls, new_urls, data, skipped, leaseVars, histVars,
                 callerVars, scoreVars, stores, runVars>>

\* The history of the merges that committed.
Leased == CRAWLED + 1     \* a value that is no status
ReportOf(reports, u) ==
  reports[CHOOSE i \in 1..Len(reports) : reports[i].url = u]
MergedStatus(p, u) ==
  IF u \notin UrlSet(data[p]) \/ maxMerged[u] = Leased THEN maxMerged[u]
  ELSE Max(maxMerged[u], ReportOf(data[p], u).status)
MergedScore(p, u) ==
  IF u \notin UrlSet(data[p]) THEN sumMerged[u]
  ELSE sumMerged[u] + ReportOf(data[p], u).score

\* The call merges a report with status ASSIGNED that is older than the lease.
Backdates(p, u) ==
  /\ u \in UrlSet(data[p])
  /\ ReportOf(data[p], u).status = ASSIGNED
  /\ ReportOf(data[p], u).timestamp < lastLease[u]

\* The scores of the rows of the urls S in a table.
ScoresOf(table, S) ==
  [u \in {v \in S : table[v] # NoRow} |-> table[u].score]

\* with self.connection: the transaction commits when the block is left.
MergeCommit(p) ==
  /\ pc[p] = "upsert"
  /\ next_row[p] > Len(data[p])
  /\ urls' = CommittedBy(p)
  /\ pending' = Discarded(p)
  /\ lock' = Released(p)
  /\ maxMerged' = [u \in URLS |-> MergedStatus(p, u)]
  /\ sumMerged' = [u \in URLS |-> MergedScore(p, u)]
  /\ leasedAt' = [u \in URLS |-> IF u \in UrlSet(data[p]) THEN -1 ELSE leasedAt[u]]
  /\ backdated' = [u \in URLS |-> backdated[u] \/ Backdates(p, u)]
  /\ pc' = [pc EXCEPT ![p] = "idle"]
  /\ Ended(p)
  /\ stores' = IF score_pc = "query"
               THEN stores \cup {ScoresOf(CommittedBy(p), UrlsOf(score_urls))}
               ELSE stores
  /\ UNCHANGED <<clock, leaseVars, lastLease, callerVars, scoreVars, runVars>>

\* A cycle of waiting transactions: PostgreSQL makes the statement of one of
\* them fail, and leaving the with block on the exception rolls it back.
RECURSIVE WaitChain(_, _, _)
WaitChain(p, q, n) ==
  IF n = 0 \/ q = 0 THEN FALSE
  ELSE WaitsFor(q) = p \/ WaitChain(p, WaitsFor(q), n - 1)
Deadlocked(p) == WaitChain(p, p, Cardinality(Procs))

DeadlockAbort(p) ==
  /\ Deadlocked(p)
  /\ pending' = Discarded(p)
  /\ lock' = Released(p)
  /\ pc' = [pc EXCEPT ![p] = "DeadlockDetected"]
  /\ UNCHANGED <<clock, urls, mergeVars, leaseVars, histVars,
                 callerVars, scoreVars, stores, runVars>>

\* The exception of a failed call reaches the caller.
Raise(p) ==
  /\ pc[p] \in {"AssertionError", "DeadlockDetected"}
  /\ pc' = [pc EXCEPT ![p] = "idle"]
  /\ Ended(p)
  /\ UNCHANGED <<clock, tableVars, leaseVars, histVars,
                 callerVars, scoreVars, stores, runVars>>

\* ---------------------------------------------- get_new_batch_for_user
\* Faulty variant: every status from ASSIGNED on is leased again.
EligibleFromAssigned(row, min_updated_date) ==
  \/ row.status = URLStatus_NEW
  \/ row.status >= ASSIGNED /\ row.updated < min_updated_date

\* Faulty variant: the lease ends one instant early.
EligibleAtExpiry(row, min_updated_date) ==
  \/ row.status = URLStatus_NEW
  \/ row.status = ASSIGNED /\ row.updated <= min_updated_date

\* WHERE status = NEW OR (status = ASSIGNED AND updated < min_updated_date)
Eligible(row, min_updated_date) ==
  \/ row.status = URLStatus_NEW
  \/ row.status = ASSIGNED /\ row.updated < min_updated_date

\* Faulty variant: locked rows are not skipped.
AvailableLocked(p, min_updated_date) ==
  {u \in URLS : /\ urls[u] # NoRow
                /\ (urls[u].status = URLStatus_NEW
                      \/ (urls[u].status = ASSIGNED /\ urls[u].updated < min_updated_date))}

\* The rows the subquery can lock: SKIP LOCKED leaves out the locked ones.
Available(p, min_updated_date) ==
  {u \in URLS : /\ Visible(p, u) # NoRow
                /\ Eligible(Visible(p, u), min_updated_date)
                /\ lock[u] \in {0, p}}

\* LIMIT {BATCH_SIZE}
Limit == Min(BATCH_SIZE, MaxBatch)

\* Faulty variants: no LIMIT, no ORDER BY.
BatchesUnlimited(p, min_updated_date) == {Available(p, min_updated_date)}
BatchesUnordered(p, min_updated_date) ==
  LET avail == Available(p, min_updated_date)
  IN {S \in SUBSET avail : Cardinality(S) = Min(Limit, Cardinality(avail))}

\* ORDER BY score DESC LIMIT ...: the sets of rows the subquery may return
\* (rows of equal score come in any order).
Batches(p, min_updated_date) ==
  LET avail == Available(p, min_updated_date)
  IN {S \in SUBSET avail :
        /\ Cardinality(S) = Min(Limit, Cardinality(avail))
        /\ \A u \in S, v \in avail \ S : Visible(p, u).score >= Visible(p, v).score}

\* Faulty variant: the attribution is left as it was.
AssignedKeepsUser(row, user_id_hash, t) ==
  [row EXCEPT !.status = ASSIGNED, !.updated = t]

\* SET status = ASSIGNED, user_id_hash = ..., updated = now
Assigned(row, user_id_hash, t) ==
  [row EXCEPT !.status = ASSIGNED, !.user_id_hash = user_id_hash, !.updated = t]

\* get_new_batch_for_user(user_id_hash): now = datetime.utcnow()
LeaseCall(p, user_id_hash) ==
  /\ pc[p] = "idle"
  /\ user' = [user EXCEPT ![p] = user_id_hash]
  /\ now' = [now EXCEPT ![p] = clock]
  /\ pc' = [pc EXCEPT ![p] = "lease"]
  /\ UNCHANGED <<clock, tableVars, mergeVars, results, histVars,
                 callerVars, scoreVars, stores, runVars>>

\* cursor.execute(sql): the subquery locks the batch, the UPDATE rewrites it
\* and RETURNING url gives the results.
LeaseUpdate(p) ==
  /\ pc[p] = "lease"
  /\ \E S \in Batches(p, now[p] - REASSIGN_MIN_HOURS) :
       /\ lock' = [u \in URLS |-> IF u \in S THEN p ELSE lock[u]]
       /\ pending' = [u \in URLS |->
                        IF u \in S THEN Assigned(Visible(p, u), user[p], now[p])
                        ELSE pending[u]]
       /\ results' = [results EXCEPT ![p] = S]
  /\ pc' = [pc EXCEPT ![p] = "leased"]
  /\ UNCHANGED <<clock, urls, mergeVars, user, now, histVars,
                 callerVars, scoreVars, stores, runVars>>

\* The end of the transaction of get_new_batch_for_user, and of the call.
LeaseCommit(p) ==
  /\ pc[p] = "leased"
  /\ urls' = CommittedBy(p)
  /\ pending' = Discarded(p)
  /\ lock' = Released(p)
  /\ maxMerged' = [u \in URLS |-> IF u \in results[p] THEN Leased ELSE maxMerged[u]]
  /\ leasedAt' = [u \in URLS |-> IF u \in results[p] THEN now[p] ELSE leasedAt[u]]
  /\ lastLease' = [u \in URLS |-> IF u \in results[p] THEN now[p] ELSE lastLease[u]]
  /\ backdated' = [u \in URLS |-> u \notin results[p] /\ backdated[u]]
  /\ pc' = [pc EXCEPT ![p] = "idle"]
  /\ user' = [user EXCEPT ![p] = ""]
  /\ now' = [now EXCEPT ![p] = 0]
  /\ results' = [results EXCEPT ![p] = {}]
  /\ UNCHANGED <<clock, mergeVars, sumMerged,
                 callerVars, scoreVars, stores, runVars>>

\* ------------------------------------------------------- get_url_scores
\* batch(items, batch_size): items[ndx:min(ndx + batch_size, length)], with
\* the indices counted from 1.
batch(items, n, batch_size) ==
  SubSeq(items, n, Min(n + batch_size - 1, Len(items)))

ChunkSize == Min(URL_BATCH_SIZE, MaxChunk)

\* SELECT url, score FROM urls WHERE url IN %(urls)s, as a dict: the
\* statement of another connection reads the committed rows.
Selected(url_batch) ==
  [u \in {v \in UrlsOf(url_batch) : urls[v] # NoRow} |-> urls[u].score]

\* Faulty variant: the mapping of the last chunk replaces the others.
UpdateReplaces(d, e) == e

\* d.update(e)
Update(d, e) ==
  [u \in DOMAIN d \cup DOMAIN e |-> IF u \in DOMAIN e THEN e[u] ELSE d[u]]

\* get_url_scores(urls): url_scores = {}
ScoresCall(input) ==
  /\ score_pc = "idle"
  /\ score_pc' = "query"
  /\ score_urls' = input
  /\ ndx' = 1
  /\ url_scores' = NoScores
  /\ stores' = {ScoresOf(urls, UrlsOf(input))}
  /\ UNCHANGED <<clock, tableVars, pc, mergeVars, leaseVars, histVars,
                 callerVars, runVars>>

\* One turn of the loop: the query of a chunk and url_scores.update.
ScoresQuery ==
  /\ score_pc = "query"
  /\ ndx <= Len(score_urls)
  /\ LET url_batch == batch(score_urls, ndx, ChunkSize)
     IN url_scores' = Update(url_scores, Selected(url_batch))
  /\ ndx' = ndx + ChunkSize
  /\ UNCHANGED <<clock, tableVars, pc, mergeVars, leaseVars, histVars,
                 callerVars, score_pc, score_urls, stores, runVars>>

\* return url_scores: the caller has the mapping and the locals are gone.
ScoresReturn ==
  /\ score_pc = "query"
  /\ ndx > Len(score_urls)
  /\ score_pc' = "idle"
  /\ score_urls' = <<>>
  /\ ndx' = 1
  /\ url_scores' = NoScores
  /\ stores' = {}
  /\ UNCHANGED <<clock, tableVars, pc, mergeVars, leaseVars, histVars,
                 callerVars, runVars>>

\* ------------------------------------------------- background.py: run
otherVars ==
  <<clock, tableVars, pc, mergeVars, leaseVars, histVars, callerVars, scoreVars, stores>>

\* run(data_path)
RunCall ==
  /\ run_pc = "idle"
  /\ run_pc' = "historical"
  /\ UNCHANGED <<iteration, log, otherVars>>

\* historical.run(), outside any try: it returns, or its exception leaves run.
HistoricalRun ==
  /\ run_pc = "historical"
  /\ \/ run_pc' = "retrieve_batches" /\ iteration' = 1
     \/ run_pc' = "raised" /\ UNCHANGED iteration
  /\ UNCHANGED <<log, otherVars>>

\* try: batch_cache.retrieve_batches(...) except Exception: logger.exception(...)
RetrieveBatches ==
  /\ run_pc = "retrieve_batches"
  /\ run_pc' = "index_batches"
  /\ \/ UNCHANGED log
     \/ log' = Append(log, "Error retrieving batches")
  /\ UNCHANGED <<iteration, otherVars>>

\* try: index_batches.run(...) except Exception: logger.exception(...)
IndexBatches ==
  /\ run_pc = "index_batches"
  /\ run_pc' = "sleep"
  /\ \/ UNCHANGED log
     \/ log' = Append(log, "Error indexing batches")
  /\ UNCHANGED <<iteration, otherVars>>

\* sleep(10), and the next turn of while True
Sleep ==
  /\ run_pc = "sleep"
  /\ iteration < MaxIter
  /\ run_pc' = "retrieve_batches"
  /\ iteration' = iteration + 1
  /\ UNCHANGED <<log, otherVars>>

\* ------------------------------------------------------------- the clock
Tick ==
  /\ clock < MaxTime
  /\ clock' = clock + 1
  /\ UNCHANGED <<tableVars, pc, mergeVars, leaseVars, histVars,
                 callerVars, scoreVars, stores, runVars>>

\* ------------------------------------------------------ specifications
\* A table in which every url has the row E (NoRow: the table is empty), and
\* the history of the merges that made it so.
Stored(E) ==
  /\ urls = [u \in URLS |-> E]
  /\ pending = [u \in URLS |-> NoRow]
  /\ lock = [u \in URLS |-> 0]
  /\ maxMerged = [u \in URLS |-> E.status]
  /\ sumMerged = [u \in URLS |-> E.score]
  /\ leasedAt = [u \in URLS |-> -1]
  /\ lastLease = [u \in URLS |-> -1]
  /\ backdated = [u \in URLS |-> FALSE]

\* No call is under way.
Idle ==
  /\ clock = 0
  /\ pc = [p \in Procs |-> "idle"]
  /\ found_urls = [p \in Procs |-> <<>>]
  /\ new_urls = [p \in Procs |-> {}]
  /\ data = [p \in Procs |-> <<>>]
  /\ next_row = [p \in Procs |-> 1]
  /\ user = [p \in Procs |-> ""]
  /\ now = [p \in Procs |-> 0]
  /\ results = [p \in Procs |-> {}]
  /\ skipped = [p \in Procs |-> {}]
  /\ score_pc = "idle"
  /\ score_urls = <<>>
  /\ ndx = 1
  /\ url_scores = NoScores
  /\ stores = {}
  /\ run_pc = "idle"
  /\ iteration = 0
  /\ log = <<>>

Init ==
  /\ Stored(NoRow)
  /\ Idle
  /\ calls = <<>>
  /\ called = 0

\* The score that the merges under way may still add to url u.
ScoreOf(reports, u) ==
  IF u \in UrlSet(reports) THEN ReportOf(reports, u).score ELSE 0
RECURSIVE InFlight(_, _)
InFlight(S, u) ==
  IF S = {} THEN 0
  ELSE LET p == CHOOSE p \in S : TRUE
       IN ScoreOf(found_urls[p], u) + ScoreOf(data[p], u) + InFlight(S \ {p}, u)

\* The calls are bounded so that no score grows beyond MaxScore.
RECURSIVE ScoreSum(_)
ScoreSum(reports) ==
  IF reports = <<>> THEN 0 ELSE Head(reports).score + ScoreSum(Tail(reports))
WithinScore(reports) ==
  \A u \in UrlSet(reports) :
    sumMerged[u] + InFlight(Procs, u)
      + ScoreSum(SelectSeq(reports, LAMBDA r : r.url = u)) <= MaxScore

UserOf(p) == IF p = Conn THEN "A" ELSE "B"
Lists(R, n) == {s \in [1..n -> R] : TRUE}

\* Concurrent callers: two connections of one user, reporting at the time
\* of the call with score 1; the lists of three reports repeat a url.
ConcUser == "A"
ConcReports ==
  {FoundURL(u, ConcUser, 1, s, clock) : u \in URLS, s \in {URLStatus_NEW, CRAWLED}}
NewReports ==
  {FoundURL(u, ConcUser, 1, URLStatus_NEW, clock) : u \in URLS}
ConcInputs ==
  {<<>>} \cup Lists(ConcReports, 1)
         \cup {s \in Lists(ConcReports, 2) : s[1].url # s[2].url}
         \cup Lists(NewReports, 3)

Next ==
  \/ \E p \in Procs : pc[p] = "idle" /\ \E reports \in ConcInputs :
       WithinScore(reports) /\ MergeCall(p, reports) /\ UNCHANGED callerVars
  \/ \E p \in Procs : LockUrls(p)
  \/ \E p \in Procs : Upsert(p)
  \/ \E p \in Procs : MergeCommit(p)
  \/ \E p \in Procs : DeadlockAbort(p)
  \/ \E p \in Procs : Raise(p)
  \/ \E p \in Procs : LeaseCall(p, ConcUser)
  \/ \E p \in Procs : LeaseUpdate(p)
  \/ \E p \in Procs : LeaseCommit(p)

\* Concurrent transactions, with the clock standing still.
Spec == Init /\ [][Next]_vars

\* One connection, with reports of every status, user, score and timestamp
\* for the first url.
AnyReports ==
  {FoundURL(FirstUrl, w, v, s, t) :
     w \in Users, v \in {1, 2}, s \in URLStatus, t \in Times}
MergeInputs ==
  {<<>>} \cup Lists(AnyReports, 1)

NextMerge ==
  \/ Tick
  \/ pc[Conn] = "idle" /\ \E reports \in MergeInputs :
       WithinScore(reports) /\ MergeCall(Conn, reports) /\ UNCHANGED callerVars
  \/ LockUrls(Conn)
  \/ Upsert(Conn)
  \/ MergeCommit(Conn)
  \/ \E w \in Users : LeaseCall(Conn, w)
  \/ LeaseUpdate(Conn)
  \/ LeaseCommit(Conn)

SpecMerge == Init /\ [][NextMerge]_vars

\* Concurrent leases while the clock runs; one connection also reports new
\* urls, one at a time.
LeaseReports(p) ==
  {FoundURL(u, UserOf(p), v, URLStatus_NEW, clock) : u \in URLS, v \in {1, 2}}

NextLease ==
  \/ Tick
  \/ pc[Conn] = "idle" /\ \E reports \in Lists(LeaseReports(Conn), 1) :
       WithinScore(reports) /\ MergeCall(Conn, reports) /\ UNCHANGED callerVars
  \/ LockUrls(Conn)
  \/ Upsert(Conn)
  \/ MergeCommit(Conn)
  \/ \E p \in Procs : LeaseCall(p, UserOf(p))
  \/ \E p \in Procs : LeaseUpdate(p)
  \/ \E p \in Procs : LeaseCommit(p)

SpecLease == Init /\ [][NextLease]_vars

\* A sequential caller merges single reports into two urls that start with
\* the same row: a report R twice into the first url and once into the second
\* (Replay), or R1 then R2 into the first and R2 then R1 into the second
\* (Swapped).
SecondUrl == CHOOSE u \in URLS : u # FirstUrl
At(r, u) == [r EXCEPT !.url = u]
Replay(R) == <<<<R>>, <<R>>, <<At(R, SecondUrl)>>>>
Swapped(R1, R2) == <<<<R1>>, <<R2>>, <<At(R2, SecondUrl)>>, <<At(R1, SecondUrl)>>>>

ReplayRows ==
  {NoRow} \cup {[status |-> s, user_id_hash |-> "A", score |-> 1, updated |-> 0] :
                 s \in URLStatus}
FirstReports == {r \in AnyReports : r.score = 1}
SecondReports == {r \in AnyReports : r.score = 2}
Scripts ==
  {Replay(R) : R \in AnyReports}
    \cup {Swapped(R1, R2) : R1 \in FirstReports, R2 \in SecondReports}

InitReplay ==
  /\ \E E \in ReplayRows : Stored(E)
  /\ Idle
  /\ calls \in Scripts
  /\ called = 0

NextReplay ==
  \/ /\ pc[Conn] = "idle"
     /\ called < Len(calls)
     /\ MergeCall(Conn, calls[called + 1])
     /\ called' = called + 1
     /\ UNCHANGED calls
  \/ LockUrls(Conn)
  \/ Upsert(Conn)
  \/ MergeCommit(Conn)

SpecReplay == InitReplay /\ [][NextReplay]_vars

\* One connection merges reports of one or two urls while another reads
\* scores.
ScoreReports ==
  {FoundURL(u, ConcUser, 1, URLStatus_NEW, clock) : u \in URLS}
ScoreMerges ==
  Lists(ScoreReports, 1) \cup {s \in Lists(ScoreReports, 2) : s[1].url < s[2].url}
\* The lists of urls read: up to one url more than there are, so that the
\* longest name a url twice.
ScoreInputs == UNION {Lists(URLS, n) : n \in 0..Cardinality(URLS) + 1}

NextScores ==
  \/ pc[Conn] = "idle" /\ \E reports \in ScoreMerges :
       WithinScore(reports) /\ MergeCall(Conn, reports) /\ UNCHANGED callerVars
  \/ LockUrls(Conn)
  \/ Upsert(Conn)
  \/ MergeCommit(Conn)
  \/ \E input \in ScoreInputs : ScoresCall(input)
  \/ ScoresQuery
  \/ ScoresReturn

SpecScores == Init /\ [][NextScores]_vars

\* Leases by two connections while the first also merges reports of every
\* status and timestamp for the first url, and the clock runs.
MixedReports ==
  {FoundURL(FirstUrl, ConcUser, 1, s, t) : s \in URLStatus, t \in Times}

NextMixed ==
  \/ Tick
  \/ pc[Conn] = "idle" /\ \E reports \in Lists(MixedReports, 1) :
       WithinScore(reports) /\ MergeCall(Conn, reports) /\ UNCHANGED callerVars
  \/ LockUrls(Conn)
  \/ Upsert(Conn)
  \/ MergeCommit(Conn)
  \/ \E p \in Procs : LeaseCall(p, UserOf(p))
  \/ \E p \in Procs : LeaseUpdate(p)
  \/ \E p \in Procs : LeaseCommit(p)

SpecMixed == Init /\ [][NextMixed]_vars

\* The background process.
NextRun ==
  \/ RunCall
  \/ HistoricalRun
  \/ RetrieveBatches
  \/ IndexBatches
  \/ Sleep

SpecRun == Init /\ [][NextRun]_vars

\* ---------------------------------------------------------- properties
\* A step of connection q that runs the statement of get_new_batch_for_user.
LeaseStep(q) == pc[q] = "lease" /\ pc'[q] = "leased"

\* A committed row that is NEW, or ASSIGNED and updated before t - 1 hour,
\* and that no transaction has locked.
Expired(row, t) == row.status = ASSIGNED /\ row.updated < t - REASSIGN_MIN_HOURS
Qualifying(t) ==
  {u \in URLS : /\ urls[u] # NoRow
                /\ lock[u] = 0
                /\ (urls[u].status = URLStatus_NEW \/ Expired(urls[u], t))}

\* C1: the committed status of a URL never decreases, whatever the
\* interleaving of update_found_urls and get_new_batch_for_user.
C1_StatusNeverDecreases ==
  [][\A u \in URLS :
       urls[u] # NoRow => urls'[u] # NoRow /\ urls'[u].status >= urls[u].status]_vars

\* A url that was leased and then merged up to CRAWLED.
C1_Witness ==
  \E u \in URLS : urls[u].status = CRAWLED /\ maxMerged[u] = Leased

\* C2: while only merges have written a URL, its committed status is the
\* highest of the statuses merged, in whatever order they were merged.
C2_StatusIsMax ==
  \A u \in URLS :
    /\ urls[u] = NoRow <=> maxMerged[u] = -1
    /\ maxMerged[u] \notin {-1, Leased} => urls[u].status = maxMerged[u]

\* Several merges, the last of them below the highest status, are committed.
C2_Witness ==
  /\ urls[FirstUrl].status = ERROR_404
  /\ urls[FirstUrl].score = MaxScore
  /\ maxMerged[FirstUrl] = ERROR_404
  /\ urls[FirstUrl].updated = 0
  /\ clock = MaxTime
  /\ pc[Conn] = "idle"

\* C3: the committed score of a URL is the sum of the scores of the merges
\* applied to it, under concurrent merges and leases.
C3_ScoreIsSum ==
  \A u \in URLS :
    IF urls[u] = NoRow THEN sumMerged[u] = 0 ELSE urls[u].score = sumMerged[u]

\* A call that found no row for a url adds its score to the row that another
\* call has inserted in the meantime.
C3_Witness ==
  \E q \in Procs, u \in URLS :
    /\ pc[q] = "upsert"
    /\ u \in new_urls[q]
    /\ urls[u] # NoRow
    /\ lock[u] = q
    /\ pending[u].score = urls[u].score + 1

\* C4: when the upsert meets an existing row E with a report R, user_id_hash
\* and updated stay those of E if E.status > R.status and become those of R
\* otherwise, whatever the scores; the score is the sum.
C4_Attribution ==
  [][\A p \in Procs :
       (HasRow(p) /\ next_row'[p] = next_row[p] + 1
          /\ Visible(p, RowToInsert(p)) # NoRow)
       => LET E == Visible(p, RowToInsert(p))
              R == data[p][next_row[p]]
              N == pending'[RowToInsert(p)]
          IN /\ E.status > R.status
                  => N.user_id_hash = E.user_id_hash /\ N.updated = E.updated
             /\ E.status <= R.status
                  => N.user_id_hash = R.user_id_hash /\ N.updated = R.timestamp
             /\ N.score = E.score + R.score]_vars

\* (A, 2, NEW, 0) then (B, 1, ASSIGNED, 1): ASSIGNED, score 3, user B, updated 1.
C4_Witness ==
  /\ urls[FirstUrl] =
       [status |-> ASSIGNED, user_id_hash |-> "B", score |-> 3, updated |-> 1]
  /\ maxMerged[FirstUrl] = ASSIGNED

\* C5: a call whose list names a URL twice ends in the assertion error and
\* changes neither the rows nor the locks; no call with such a list goes on.
Repeats(reports) ==
  \E i, j \in 1..Len(reports) : i # j /\ reports[i].url = reports[j].url
C5_DuplicatesRejected ==
  [][\A p \in Procs :
       /\ (pc[p] = "idle" /\ Repeats(found_urls'[p]))
            => pc'[p] = "AssertionError" /\ UNCHANGED <<urls, pending, lock>>
       /\ (pc[p] = "AssertionError" /\ pc'[p] # pc[p])
            => pc'[p] = "idle" /\ UNCHANGED <<urls, pending, lock>>
       /\ pc'[p] \in {"lock_urls", "upsert"}
            => ~Repeats(found_urls'[p]) /\ ~Repeats(data'[p])]_vars

\* A failed call whose list also has a url that is not repeated.
C5_Witness ==
  \E p \in Procs :
    /\ pc[p] = "AssertionError"
    /\ \E i \in 1..Len(found_urls[p]) :
         /\ \A j \in 1..Len(found_urls[p]) :
              j # i => found_urls[p][j].url # found_urls[p][i].url
         /\ urls[found_urls[p][i].url] = NoRow

\* C6: two leases whose transactions overlap return disjoint sets of URLs.
C6_DisjointBatches ==
  \A p, q \in Procs :
    (p # q /\ pc[p] = "leased" /\ pc[q] = "leased") => results[p] \cap results[q] = {}

\* Two transactions that both hold a batch.
C6_Witness ==
  \A p \in Procs : pc[p] = "leased" /\ results[p] # {}

\* C7, as amended: a URL leased at T and not merged since is not returned by
\* a call with now <= T + 1 hour, and is eligible in a call with
\* now > T + 1 hour: if unlocked it is returned, unless the batch is full of
\* rows with at least its score.
C7_LeaseExpiry ==
  [][\A q \in Procs, u \in URLS :
       (LeaseStep(q) /\ leasedAt[u] >= 0)
       => /\ u \in results'[q] => now[q] > leasedAt[u] + REASSIGN_MIN_HOURS
          /\ (now[q] > leasedAt[u] + REASSIGN_MIN_HOURS /\ lock[u] = 0
                /\ u \notin results'[q])
             => /\ Cardinality(results'[q]) = Min(BATCH_SIZE, MaxBatch)
                /\ \A v \in results'[q] : urls[v].score >= urls[u].score]_vars

\* A lease that has expired is given to the next caller.
C7_Witness ==
  \E q \in Procs, u \in URLS :
    /\ pc[q] = "leased"
    /\ u \in results[q]
    /\ leasedAt[u] >= 0
    /\ now[q] = leasedAt[u] + REASSIGN_MIN_HOURS + 1

\* C7, as stated: eligible in every call with now >= T + 1 hour.
C7_EligibleAtOneHour ==
  [][\A q \in Procs, u \in URLS :
       (LeaseStep(q) /\ leasedAt[u] >= 0
          /\ now[q] >= leasedAt[u] + REASSIGN_MIN_HOURS /\ lock[u] = 0
          /\ u \notin results'[q])
       => /\ Cardinality(results'[q]) = Min(BATCH_SIZE, MaxBatch)
          /\ \A v \in results'[q] : urls[v].score >= urls[u].score]_vars

\* C8: a lease returns min(BATCH_SIZE, number of qualifying rows) URLs, all
\* of them qualifying rows (the table of the model holds fewer than BATCH_SIZE
\* rows: the count is cut at MaxBatch).
C8_BatchSize ==
  [][\A q \in Procs :
       LeaseStep(q)
       => /\ results'[q] \subseteq Qualifying(now[q])
          /\ Cardinality(results'[q]) =
               Min(Min(BATCH_SIZE, MaxBatch), Cardinality(Qualifying(now[q])))]_vars

\* A batch that leaves a qualifying row behind.
C8_Witness ==
  \E q \in Procs, v \in URLS :
    /\ pc[q] = "leased"
    /\ Cardinality(results[q]) = MaxBatch
    /\ v \in Qualifying(now[q])

\* C9: every URL a lease returns has at least the score of every qualifying
\* row it does not return.
C9_HighestScoreFirst ==
  [][\A q \in Procs :
       LeaseStep(q)
       => \A u \in results'[q], v \in Qualifying(now[q]) \ results'[q] :
            urls[u].score >= urls[v].score]_vars

\* A batch that leaves a qualifying row of lower score behind.
C9_Witness ==
  \E q \in Procs, u \in URLS, v \in URLS :
    /\ pc[q] = "leased"
    /\ u \in results[q]
    /\ v \in Qualifying(now[q])
    /\ urls[v].score < urls[u].score

\* C10, as stated: no step of a call waits for a row that another
\* transaction has locked or inserted.
C10_NeverWaits ==
  \A p \in Procs : WaitsFor(p) = 0

\* C11, as stated: no reachable state has a cycle of transactions in which
\* each waits for a row held by the next.
C11_NoDeadlock ==
  \A p \in Procs : ~Deadlocked(p)

\* The sequential caller has made all its calls and the last has returned.
AllCalled == called = Len(calls) /\ pc[Conn] = "idle"
\* The reports of the caller: calls is Replay(Report1) or Swapped(Report1, Report2).
Replayed == AllCalled /\ Len(calls) = 3
Swapping == AllCalled /\ Len(calls) = 4
Report1 == calls[1][1]
Report2 == calls[2][1]

\* C12, as stated: merging a report R twice in succession leaves the record
\* (status, user_id_hash, score, updated) that merging R once leaves.
C12_Idempotent ==
  Replayed => urls[FirstUrl] = urls[SecondUrl]

\* C12, as amended: merging R twice leaves the status, user_id_hash and
\* updated that merging R once leaves, and a score that is higher by R.score.
C12_ReplayAddsScore ==
  Replayed => urls[FirstUrl] = [urls[SecondUrl] EXCEPT !.score = @ + Report1.score]

\* A report replayed on a row of its own status and of another user.
C12_Witness ==
  /\ Replayed
  /\ Report1 = FoundURL(FirstUrl, "B", 2, ERROR_404, MaxTime)
  /\ urls[SecondUrl] =
       [status |-> ERROR_404, user_id_hash |-> "B", score |-> 3, updated |-> MaxTime]
  /\ urls[FirstUrl].score = 5

\* C13, as stated: merging R1 then R2 leaves the record that merging R2 then
\* R1 leaves, also when the two have the same status.
C13_Commutative ==
  Swapping => urls[FirstUrl] = urls[SecondUrl]

\* C13, as amended: the two orders leave the same status and score; they
\* leave the same user_id_hash and updated too, unless R1 and R2 have the same
\* status and the record had no higher one (or did not exist): then
\* user_id_hash and updated are those of the report merged last.
C13_CommutativeButTies ==
  Swapping
  => IF Report1.status = Report2.status /\ urls[FirstUrl].status = Report1.status
     THEN /\ urls[FirstUrl] =
               [status |-> Report1.status, user_id_hash |-> Report2.user_id_hash,
                score |-> urls[SecondUrl].score, updated |-> Report2.timestamp]
          /\ urls[SecondUrl] =
               [status |-> Report1.status, user_id_hash |-> Report1.user_id_hash,
                score |-> urls[FirstUrl].score, updated |-> Report1.timestamp]
     ELSE urls[FirstUrl] = urls[SecondUrl]

\* Two reports of different statuses, users and timestamps merged in both
\* orders into a row of a lower status.
C13_Witness ==
  /\ Swapping
  /\ Report1 = FoundURL(FirstUrl, "A", 1, CRAWLED, 0)
  /\ Report2 = FoundURL(FirstUrl, "B", 2, ERROR_TIMEOUT, MaxTime)
  /\ urls[FirstUrl] =
       [status |-> CRAWLED, user_id_hash |-> "A", score |-> 4, updated |-> 0]
  /\ urls[SecondUrl] = urls[FirstUrl]

\* The steps of get_url_scores, and the one that returns.
ScoresStep == score_pc' # score_pc \/ ndx' # ndx
ScoresReturned == score_pc = "query" /\ score_pc' = "idle"

\* The mapping from the urls of a list that have a row to their stored scores.
StoredScores(list) ==
  [u \in {v \in URLS : (\E i \in 1..Len(list) : list[i] = v) /\ urls[v] # NoRow}
     |-> urls[u].score]

\* The mappings of the consecutive chunks of at most k urls, merged.
RECURSIVE ChunksMerged(_, _)
ChunksMerged(list, k) ==
  IF Len(list) <= k THEN StoredScores(list)
  ELSE LET first == StoredScores(SubSeq(list, 1, k))
           rest == ChunksMerged(SubSeq(list, k + 1, Len(list)), k)
       IN [u \in DOMAIN first \cup DOMAIN rest |->
             IF u \in DOMAIN rest THEN rest[u] ELSE first[u]]

\* C14: a call of get_url_scores during which the scores of the urls asked for
\* do not change returns the mapping from exactly the input urls that have a
\* row to their stored scores, which is also the merged mapping of the
\* consecutive chunks of the input; no step of the call changes the table.
C14_ScoresOfPresentUrls ==
  [][/\ ScoresStep => UNCHANGED <<urls, pending, lock>>
     /\ (ScoresReturned /\ Cardinality(stores) = 1)
          => /\ url_scores = StoredScores(score_urls)
             /\ url_scores = ChunksMerged(score_urls, Min(URL_BATCH_SIZE, MaxChunk))]_vars

\* A call about to return: its list has more urls than a chunk, names a url
\* twice and names a url whose only row is uncommitted.
C14_Witness ==
  /\ score_pc = "query"
  /\ ndx > Len(score_urls)
  /\ score_urls = <<SecondUrl, FirstUrl, SecondUrl>>
  /\ Cardinality(stores) = 1
  /\ urls[FirstUrl] = NoRow /\ pending[FirstUrl] # NoRow
  /\ DOMAIN url_scores = {SecondUrl}
  /\ url_scores[SecondUrl] = 2

\* C17, as stated: the mapping get_url_scores returns is the mapping of the
\* requested urls in one single state the table was in during the call, also
\* when merges commit between the queries of the chunks.
C17_AtomicRead ==
  [][ScoresReturned => url_scores \in stores]_vars

\* C15: a call get_new_batch_for_user(w) at time now returns only urls whose
\* row was NEW, or ASSIGNED with updated < now - 1 hour; when its transaction
\* commits, the row of each returned url has status ASSIGNED, user_id_hash w,
\* updated now and the score it had, and every other row, and the set of
\* urls that have a row, are as before.
C15_LeaseFrame ==
  [][\A q \in Procs :
       (pc[q] = "leased" /\ pc'[q] = "idle")
       => \A u \in URLS :
            IF u \in results[q]
            THEN /\ urls[u] # NoRow
                 /\ \/ urls[u].status = URLStatus_NEW
                    \/ /\ urls[u].status = ASSIGNED
                       /\ urls[u].updated < now[q] - REASSIGN_MIN_HOURS
                 /\ urls'[u] = [status |-> ASSIGNED, user_id_hash |-> user[q],
                                score |-> urls[u].score, updated |-> now[q]]
            ELSE urls'[u] = urls[u]]_vars

\* A url of score 2 is leased to user B at the last hour, while a NEW url is
\* left as it is.
C15_Witness ==
  \E u \in URLS, v \in URLS :
    /\ leasedAt[u] = MaxTime
    /\ urls[u] = [status |-> ASSIGNED, user_id_hash |-> "B", score |-> 2,
                  updated |-> MaxTime]
    /\ sumMerged[u] = 2
    /\ urls[v].status = URLStatus_NEW
    /\ \A p \in Procs : pc[p] = "idle"

\* C16, as stated: a call of update_found_urls that finds existing rows of
\* its urls locked by another transaction ends without error, never writes
\* the rows it found locked, and writes a row for every other url of its list.
C16_LockedRowsSkipped ==
  [][\A p \in Procs :
       /\ skipped[p] # {} => pc'[p] \notin {"AssertionError", "DeadlockDetected"}
       /\ \A u \in skipped[p] : lock'[u] # p /\ u \notin UrlSet(data[p])
       /\ (pc[p] = "lock_urls" /\ pc'[p] = "upsert")
            => \A u \in UrlSet(found_urls[p]) \ skipped'[p] : u \in UrlSet(data'[p])]_vars

\* C18, as stated: no exception of a phase ends run; whether or not
\* retrieve_batches failed, index_batches runs next; and whether or not a phase
\* failed, the loop sleeps and starts its next iteration.
C18_RunNeverStops ==
  [][/\ run_pc' # "raised"
     /\ (run_pc = "retrieve_batches" /\ run_pc' # run_pc) => run_pc' = "index_batches"
     /\ (run_pc = "index_batches" /\ run_pc' # run_pc) => run_pc' = "sleep"
     /\ (run_pc = "sleep" /\ run_pc' # run_pc)
          => run_pc' = "retrieve_batches" /\ iteration' = iteration + 1]_vars

\* C19: once the committed status of a URL is above ASSIGNED, no call of
\* get_new_batch_for_user returns the URL and no step of a merge or a lease,
\* however they interleave, brings its status back to NEW or ASSIGNED.
C19_TerminalStatuses ==
  [][\A u \in URLS :
       (urls[u] # NoRow /\ urls[u].status > ASSIGNED)
       => /\ urls'[u] # NoRow /\ urls'[u].status > ASSIGNED
          /\ \A q \in Procs : LeaseStep(q) => u \notin results'[q]]_vars

\* A url that was leased, then reported as failed at hour 0: at the last
\* hour a lease finds nothing to return.
C19_Witness ==
  \E q \in Procs :
    /\ pc[q] = "leased"
    /\ results[q] = {}
    /\ now[q] = MaxTime
    /\ urls[FirstUrl].status = ERROR_TIMEOUT
    /\ urls[FirstUrl].updated = 0
    /\ lastLease[FirstUrl] = 0
    /\ lock[FirstUrl] = 0

====
